---- MODULE Spec2Model ----
(***************************************************************************)
(* CountdownOvertimer: src/main.cpp, class TimerApp.                       *)
(*                                                                         *)
(* The countdown engine (resetTimer, onStartPauseClicked, onTick) and the  *)
(* parts of the widget state it drives (the Start/Pause button, the 50 ms  *)
(* QTimer), together with the two clocks the program reads: the wall clock *)
(* (QDateTime::currentMSecsSinceEpoch) and the monotonic time that drives  *)
(* the QTimer.  All times are in milliseconds.                             *)
(***************************************************************************)
EXTENDS Integers, Sequences, FiniteSets, TLC

(***************************************************************************)
(* Bounds of the exploration.                                              *)
(***************************************************************************)
\* the wall clock runs over 0..MaxNow
MaxNow == 2100
\* configured durations (60*min + sec) explored: -1..MaxCfgSec seconds
MaxCfgSec == 1
\* number of sub-interval clock advances (FineSteps) explored in one run
MaxFineSteps == 2
\* a clock advance shorter than the tick interval
SubTick == 30
\* sound requests recorded in one reset cycle before ticks are cut off
MaxLog == 3
MaxLines == 7
\* window sizes: every width and height up to MaxSide, the constructor's
\* size, and the screen's size when shown full screen
MaxSide == 100
ScreenWidth == 1200
ScreenHeight == 800

(***************************************************************************)
(* Program constants.                                                      *)
(***************************************************************************)
\* timer->setInterval(50)
TickInterval == 50
\* the factor 1000 of resetTimer (seconds to milliseconds)
MsPerSec == 1000
\* the factor 60 of resetTimer (minutes to seconds)
SecPerMin == 60
\* the largest value of the int fields startMin, startSec, limitMin, limitSec
IntMax == 2147483647
\* resize(600, 400);
DefaultWidth == 600
DefaultHeight == 400
\* if (newPointSize < 20) newPointSize = 20;
MinPointSize == 20
IntMin == (0 - IntMax) - 1
\* int startSec = 10; int limitSec = 10; int startMin = 0; int limitMin = 0
DefaultStartMin == 0
DefaultStartSec == 10
DefaultLimitMin == 0
DefaultLimitSec == 10

\* clock advances: shorter than / equal to the tick interval, and a long one
FineSteps == {SubTick, TickInterval}
CoarseStep == 1000
BackStep == 1000

VARIABLES
    \* configuration fields (main.cpp 84-87), fixed after loadConfig
    startMin, startSec, limitMin, limitSec,
    \* QString soundZeroFile, soundLimitFile (main.cpp 88-89): sequences of
    \* characters, fixed after loadConfig
    soundZeroFile, soundLimitFile,
    \* config.txt in the working directory: whether QFile::open succeeds,
    \* and its lines (sequences of characters)
    cfgFile,
    \* QMediaPlayer *player: the clip it is sounding ("none" when stopped)
    playerClip,
    \* state fields (main.cpp 92-97)
    currentMs, limitMs, targetEndTime, isRunning, isPaused, zeroSoundPlayed,
    \* QTimer *timer: active flag and monotonic time since it was (re)armed
    timerActive, sinceArm,
    \* QPushButton *btnStartPause: text and visibility
    btnText, btnVisible,
    \* the window: its normal size, whether it is shown full screen, and
    \* the point size of lblDisplay's font
    winW, winH, isFullScreen, pointSize,
    \* the wall clock read by QDateTime::currentMSecsSinceEpoch()
    now,
    \* history variables (not program state):
    lastEvent,   \* the event dispatched last
    prevPhase,   \* the phase in which it was dispatched
    soundLog,    \* playSound requests of this reset cycle, in order
    soundOut,    \* what each of these requests did: "play", "beep", "silent"
    wentBack,    \* the wall clock has been set back (explored once per run)
    stalled,     \* a tick was delivered late (or is overdue) in this cycle
    pressNow,    \* wall clock at the last start/resume press
    pressCur,    \* currentMs at the last start/resume press
    runTotal,    \* wall-clock time spent Running in this reset cycle
    fineSteps,   \* number of FineSteps advances taken so far
    \* the process was terminated by a trapped signed overflow
    aborted

cfgVars == <<startMin, startSec, limitMin, limitSec, soundZeroFile, soundLimitFile, cfgFile>>
engineVars == <<currentMs, limitMs, targetEndTime, isRunning, isPaused, zeroSoundPlayed>>
widgetVars == <<timerActive, sinceArm, btnText, btnVisible>>
histVars == <<lastEvent, prevPhase, soundLog, soundOut, wentBack, stalled, pressNow, pressCur, runTotal, fineSteps>>
viewVars == <<winW, winH, isFullScreen, pointSize>>
vars == <<cfgVars, engineVars, widgetVars, viewVars, playerClip, now, histVars, aborted>>

(***************************************************************************)
(* loadConfig (main.cpp 109-134): the integers QString::toInt can yield    *)
(* for the four numeric lines; the defaults stay when the file is absent.  *)
(***************************************************************************)
CfgMinInts == {0, 1}
CfgTotals == (0 - 1)..MaxCfgSec

\* <<minutes, seconds>> as two parsed lines; the seconds line may be negative
CfgPairs == {<<m, t - (SecPerMin * m)>> : m \in CfgMinInts, t \in CfgTotals}

DefaultConfig == <<DefaultStartMin, DefaultStartSec, DefaultLimitMin, DefaultLimitSec>>

loadConfig ==
    {DefaultConfig} \cup {<<a[1], a[2], b[1], b[2]>> : a \in CfgPairs, b \in CfgPairs}

(***************************************************************************)
(* loadConfig (main.cpp 109-134) on the text of config.txt.  A QString is  *)
(* a sequence of one-character strings.                                    *)
(***************************************************************************)
Digits == <<"0", "1", "2", "3", "4", "5", "6", "7", "8", "9">>
DigitChars == {Digits[i] : i \in 1..Len(Digits)}
DigitVal(ch) == (CHOOSE i \in 1..Len(Digits) : Digits[i] = ch) - 1

\* (mutant) the comment is not cut off
CutAtHash_Kept(line) == line

\* line.split('#')[0]
RECURSIVE CutAtHash(_)
CutAtHash(line) ==
    IF line = <<>> \/ Head(line) = "#" THEN <<>>
    ELSE <<Head(line)>> \o CutAtHash(Tail(line))

RECURSIVE TrimLeft(_)
TrimLeft(str) ==
    IF str # <<>> /\ Head(str) = " " THEN TrimLeft(Tail(str)) ELSE str

RECURSIVE TrimRight(_)
TrimRight(str) ==
    IF str # <<>> /\ str[Len(str)] = " "
    THEN TrimRight(SubSeq(str, 1, Len(str) - 1))
    ELSE str

\* QString::trimmed()
Trimmed(str) == TrimRight(TrimLeft(str))

\* readValidLine on the unread lines of the stream: the line it returns and
\* the lines left unread
RECURSIVE readValidLine(_)
readValidLine(lines) ==
    IF lines = <<>> THEN [line |-> <<>>, rest |-> <<>>]
    ELSE LET cleanLine == Trimmed(CutAtHash(Head(lines)))
         IN  IF cleanLine # <<>>
             THEN [line |-> cleanLine, rest |-> Tail(lines)]
             ELSE readValidLine(Tail(lines))

\* the digits ds appended to the non-positive number acc, or 1 when the
\* result is below the int range
RECURSIVE NegAccum(_, _)
NegAccum(ds, acc) ==
    IF ds = <<>> THEN acc
    ELSE IF acc < ((IntMin + DigitVal(Head(ds))) + 9) \div 10 THEN 1
    ELSE NegAccum(Tail(ds), (acc * 10) - DigitVal(Head(ds)))

\* QString::toInt(): an optional sign and decimal digits, within the int
\* range; 0 when the conversion fails
toInt(str) ==
    LET signed == str # <<>> /\ Head(str) \in {"-", "+"}
        ds == IF signed THEN Tail(str) ELSE str
        v == NegAccum(ds, 0)
    IN  IF ds = <<>> \/ (\E i \in 1..Len(ds) : ds[i] \notin DigitChars) THEN 0
        ELSE IF v = 1 THEN 0
        ELSE IF str[1] = "-" THEN v
        ELSE IF v = IntMin THEN 0
        ELSE 0 - v

\* the six fields after loadConfig
LoadedFields ==
    IF ~cfgFile.opens
    THEN <<startMin, startSec, limitMin, limitSec, soundZeroFile, soundLimitFile>>
    ELSE LET r1 == readValidLine(cfgFile.lines)
             r2 == readValidLine(r1.rest)
             r3 == readValidLine(r2.rest)
             r4 == readValidLine(r3.rest)
             r5 == readValidLine(r4.rest)
             r6 == readValidLine(r5.rest)
         IN  <<toInt(r1.line), toInt(r2.line), toInt(r3.line), toInt(r4.line),
               r5.line, r6.line>>

\* the decimal text of an int
RECURSIVE DecimalOf(_)
DecimalOf(n) ==
    IF n < 10 THEN <<Digits[n + 1]>>
    ELSE DecimalOf(n \div 10) \o <<Digits[(n % 10) + 1]>>

IntText(n) == IF n < 0 THEN <<"-">> \o DecimalOf(0 - n) ELSE DecimalOf(n)

\* a config.txt that yields the six fields
ConfigFileOf(sm, ss, lm, ls, zf, lf) ==
    [opens |-> TRUE,
     lines |-> <<IntText(sm), IntText(ss), IntText(lm), IntText(ls)>>
               \o (IF zf = <<>> THEN <<>> ELSE <<zf>>)
               \o (IF lf = <<>> THEN <<>> ELSE <<lf>>)]

(***************************************************************************)
(* The phase of the spec's engine, read off the program's fields: the      *)
(* program has no phase field.  Ended is what onTick leaves at the limit:  *)
(* isRunning false, isPaused true and the Start/Pause button hidden.       *)
(***************************************************************************)
Phase ==
    IF isRunning THEN "Running"
    ELSE IF ~isPaused THEN "Idle"
    ELSE IF btnVisible THEN "Paused"
    ELSE "Ended"

\* the configured durations in seconds, as mathematical integers
StartSeconds == (SecPerMin * startMin) + startSec
LimitSeconds == (SecPerMin * limitMin) + limitSec

(***************************************************************************)
(* resetTimer (main.cpp 223-240)                                           *)
(***************************************************************************)
(***************************************************************************)
(* resizeEvent (main.cpp 35-60).  height() and width() are non-negative.   *)
(* h * 0.50 is exact in double and its conversion to int drops the half.   *)
(* w / 4.5 is the double nearest to 2w/9: a whole number when 9 divides w, *)
(* and otherwise at least 1/9 away from one, so that the conversion to int *)
(* yields the whole part of 2w/9.                                          *)
(***************************************************************************)
\* int sizeByHeight = h * 0.50;
SizeByHeight(h) == h \div 2

\* (mutant) the divisor named in the code's comment, "Width / 5"
SizeByWidth_ByFive(w) == w \div 5

\* int sizeByWidth = w / 4.5;
SizeByWidth(w) == (2 * w) \div 9

\* std::min(sizeByHeight, sizeByWidth), raised to 20 if below
NewPointSize(w, h) ==
    LET newPointSize == IF SizeByHeight(h) < SizeByWidth(w)
                        THEN SizeByHeight(h) ELSE SizeByWidth(w)
    IN  IF newPointSize < MinPointSize THEN MinPointSize ELSE newPointSize

\* width() and height(): the screen's while full screen
CurrentWidth == IF isFullScreen THEN ScreenWidth ELSE winW
CurrentHeight == IF isFullScreen THEN ScreenHeight ELSE winH

\* The right-hand sides are evaluated in 32-bit int and only then widened
\* to qint64.  IntAdd, IntNeg and IntMulK give the two's-complement result
\* of the int operation (computed on 16-bit halves, within the checker's own
\* integer range); the *Overflows tests tell when the exact result does not
\* fit, which is undefined behaviour in C++.
HalfWord == 256 * 256

IntAddOverflows(a, b) ==
    \/ (b >= 0 /\ a > IntMax - b)
    \/ (b < 0 /\ a < IntMin - b)

IntAdd(a, b) ==
    IF b >= 0 /\ a > IntMax - b THEN (a + IntMin) + (b + IntMin)
    ELSE IF b < 0 /\ a < IntMin - b THEN (a - IntMin) + (b - IntMin)
    ELSE a + b

IntNegOverflows(a) == a = IntMin

IntNeg(a) == IF a = IntMin THEN IntMin ELSE 0 - a

\* a * k for a constant 0 < k < HalfWord that does not divide 2^31
IntMulKOverflows(a, k) == a > IntMax \div k \/ a < 0 - (IntMax \div k)

IntMulK(a, k) ==
    LET q == a \div HalfWord
        r == a % HalfWord
        c == (r * k) \div HalfWord
        d == (r * k) % HalfWord
        h == ((q * k) + c) % HalfWord
        hs == IF h >= HalfWord \div 2 THEN h - HalfWord ELSE h
    IN  (hs * HalfWord) + d

\* currentMs = ((startMin * 60) + startSec) * 1000;
ResetCurrentMs == IntMulK(IntAdd(IntMulK(startMin, SecPerMin), startSec), MsPerSec)

\* limitMs = -1 * ((limitMin * 60) + limitSec) * 1000;
ResetLimitMs ==
    IntMulK(IntNeg(IntAdd(IntMulK(limitMin, SecPerMin), limitSec)), MsPerSec)

\* some int operation of the two assignments overflows
ResetOverflows ==
    \/ IntMulKOverflows(startMin, SecPerMin)
    \/ IntAddOverflows(IntMulK(startMin, SecPerMin), startSec)
    \/ IntMulKOverflows(IntAdd(IntMulK(startMin, SecPerMin), startSec), MsPerSec)
    \/ IntMulKOverflows(limitMin, SecPerMin)
    \/ IntAddOverflows(IntMulK(limitMin, SecPerMin), limitSec)
    \/ IntNegOverflows(IntAdd(IntMulK(limitMin, SecPerMin), limitSec))
    \/ IntMulKOverflows(IntNeg(IntAdd(IntMulK(limitMin, SecPerMin), limitSec)), MsPerSec)

\* what a build can make of the assignments: the wrapped values, or, when an
\* operation overflows, also a trap that ends the process
ResetOutcomes == IF ResetOverflows THEN {"wrap", "trap"} ELSE {"wrap"}

\* (mutant) the latch survives the reset
ResetZeroSoundPlayed_NotCleared == zeroSoundPlayed

\* zeroSoundPlayed = false;
ResetZeroSoundPlayed == FALSE

\* (mutant) the reset leaves the button's visibility as it is
ResetBtnVisible_Kept == btnVisible

\* btnStartPause->setVisible(true);
ResetBtnVisible == TRUE

resetTimer ==
    /\ ~aborted
    /\ \E outcome \in ResetOutcomes :
          IF outcome = "trap"
          THEN /\ aborted' = TRUE
               /\ UNCHANGED <<cfgVars, engineVars, widgetVars, viewVars, playerClip, now, histVars>>
          ELSE /\ timerActive' = FALSE
               /\ sinceArm' = 0
               /\ isRunning' = FALSE
               /\ isPaused' = FALSE
               /\ zeroSoundPlayed' = ResetZeroSoundPlayed
               /\ currentMs' = ResetCurrentMs
               /\ limitMs' = ResetLimitMs
               /\ btnText' = "Start"
               /\ btnVisible' = ResetBtnVisible
               /\ UNCHANGED <<aborted, cfgVars, targetEndTime, now, fineSteps, winW, winH, isFullScreen>>
               /\ lastEvent' = "reset"
               /\ prevPhase' = Phase
               /\ soundLog' = <<>>
               /\ soundOut' = <<>>
               /\ playerClip' = "none"
               /\ pointSize' = NewPointSize(CurrentWidth, CurrentHeight)
               /\ wentBack' = wentBack
               /\ stalled' = FALSE
               /\ pressNow' = 0
               /\ pressCur' = 0
               /\ runTotal' = 0

\* onResetClicked (main.cpp 219-221): the Reset button is always visible
onResetClicked == resetTimer

(***************************************************************************)
(* onStartPauseClicked (main.cpp 242-255)                                  *)
(***************************************************************************)
\* (mutant) a resume keeps the target computed at the first start
StartTargetEndTime_KeptOnResume == IF isPaused THEN targetEndTime ELSE now + currentMs

\* targetEndTime = QDateTime::currentMSecsSinceEpoch() + currentMs;
StartTargetEndTime == now + currentMs

\* the pause branch leaves currentMs as the last tick set it
PauseCurrentMs == currentMs

\* (mutant) the pause branch leaves the QTimer running
PauseTimerActive_NotStopped == timerActive

\* timer->stop();   (pause branch)
PauseTimerActive == FALSE

onStartPauseClicked ==
    /\ ~aborted
    /\ IF ~isRunning
       THEN /\ isRunning' = TRUE
            /\ isPaused' = FALSE
            /\ btnText' = "Pause"
            /\ targetEndTime' = StartTargetEndTime
            /\ timerActive' = TRUE
            /\ sinceArm' = 0
            /\ currentMs' = currentMs
            /\ pressNow' = now
            /\ pressCur' = currentMs
            /\ lastEvent' = "start"
       ELSE /\ isRunning' = FALSE
            /\ isPaused' = TRUE
            /\ btnText' = "Start"
            /\ timerActive' = PauseTimerActive
            /\ sinceArm' = 0
            /\ currentMs' = PauseCurrentMs
            /\ UNCHANGED <<targetEndTime, pressNow, pressCur>>
            /\ lastEvent' = "pause"
    /\ prevPhase' = Phase
    /\ UNCHANGED <<aborted, cfgVars, viewVars, limitMs, zeroSoundPlayed, btnVisible, now>>
    /\ UNCHANGED <<soundLog, soundOut, playerClip, wentBack, stalled, runTotal, fineSteps>>

(***************************************************************************)
(* onTick (main.cpp 257-277)                                               *)
(***************************************************************************)
\* (mutant) the tick counts intervals instead of reading the clock
RemainingAtTick_TickCounting == currentMs - TickInterval

\* currentMs = targetEndTime - now;
RemainingAtTick == targetEndTime - now

\* (mutant) the zero edge is a level test, without the latch
ZeroEdge_NoLatch == RemainingAtTick <= 0

\* (mutant) the zero edge misses a remaining time of exactly 0
ZeroEdge_Strict == RemainingAtTick < 0 /\ ~zeroSoundPlayed

\* if (currentMs <= 0 && !zeroSoundPlayed)
ZeroEdge == RemainingAtTick <= 0 /\ ~zeroSoundPlayed

\* (mutant) the limit edge is an equality test, missed by a late tick
LimitEdge_Exact == RemainingAtTick = limitMs

\* if (currentMs <= limitMs)
LimitEdge == RemainingAtTick <= limitMs

\* (mutant) the value computed by a late tick is not clamped
ClampedMs_NotClamped == RemainingAtTick

\* currentMs = limitMs;
ClampedMs == limitMs

\* (mutant) the limit edge is evaluated before the zero edge
TickSounds_LimitFirst ==
    (IF LimitEdge THEN <<"limit">> ELSE <<>>) \o (IF ZeroEdge THEN <<"zero">> ELSE <<>>)

\* the playSound calls of one tick, in the order the code makes them
TickSounds ==
    (IF ZeroEdge THEN <<"zero">> ELSE <<>>) \o (IF LimitEdge THEN <<"limit">> ELSE <<>>)

\* the paths explored: none, one that names an existing regular file, and
\* one that names no file
SoundPaths == {<<>>, <<"a">>, <<"b">>}
RegularFiles == {<<"a">>}

\* the fileName argument of the playSound call for a zero or a limit event
FileNameOf(req) == IF req = "zero" THEN soundZeroFile ELSE soundLimitFile

\* playSound (main.cpp 205-216): what the call does
PlaySoundOutcome(fileName) ==
    IF fileName = <<>> THEN "silent"
    ELSE IF fileName \in RegularFiles THEN "play"
    ELSE "beep"

\* the player after the playSound calls reqs, made in order
RECURSIVE PlayerAfter(_, _)
PlayerAfter(clip, reqs) ==
    IF reqs = <<>> THEN clip
    ELSE PlayerAfter(IF PlaySoundOutcome(FileNameOf(Head(reqs))) = "play"
                     THEN Head(reqs) ELSE clip,
                     Tail(reqs))

onTick ==
    /\ ~aborted
    /\ timerActive
    /\ sinceArm >= TickInterval
    /\ Len(soundLog) < MaxLog
    /\ currentMs' = IF LimitEdge THEN ClampedMs ELSE RemainingAtTick
    /\ zeroSoundPlayed' = (zeroSoundPlayed \/ ZeroEdge)
    /\ soundLog' = soundLog \o TickSounds
    /\ soundOut' = soundOut \o [i \in 1..Len(TickSounds) |->
                                 PlaySoundOutcome(FileNameOf(TickSounds[i]))]
    /\ playerClip' = PlayerAfter(playerClip, TickSounds)
    /\ IF LimitEdge
       THEN /\ timerActive' = FALSE
            /\ isRunning' = FALSE
            /\ isPaused' = TRUE
            /\ btnVisible' = FALSE
       ELSE UNCHANGED <<timerActive, isRunning, isPaused, btnVisible>>
    /\ sinceArm' = 0
    /\ lastEvent' = "tick"
    /\ prevPhase' = Phase
    /\ UNCHANGED <<aborted, cfgVars, viewVars, limitMs, targetEndTime, btnText, now>>
    /\ UNCHANGED <<wentBack, stalled, pressNow, pressCur, runTotal, fineSteps>>

(***************************************************************************)
(* The environment: time passes; the wall clock may be set back.           *)
(***************************************************************************)
Overdue == TickInterval + 1

Elapse(d) ==
    /\ now + d <= MaxNow
    /\ now' = now + d
    /\ sinceArm' = IF ~timerActive THEN sinceArm
                   ELSE IF sinceArm + d > TickInterval THEN Overdue
                   ELSE sinceArm + d
    /\ stalled' = (stalled \/ (timerActive /\ sinceArm + d > TickInterval))
    /\ runTotal' = IF isRunning THEN runTotal + d ELSE runTotal
    /\ lastEvent' = "clock"
    /\ prevPhase' = Phase
    /\ UNCHANGED <<aborted, cfgVars, viewVars, engineVars, timerActive, btnText, btnVisible>>
    /\ UNCHANGED <<soundLog, soundOut, playerClip, wentBack, pressNow, pressCur>>

AdvanceFine ==
    /\ fineSteps < MaxFineSteps
    /\ fineSteps' = fineSteps + 1
    /\ \E d \in FineSteps : Elapse(d)

AdvanceCoarse ==
    /\ UNCHANGED fineSteps
    /\ Elapse(CoarseStep)

\* the wall clock is set back; the QTimer runs on monotonic time
ClockBack ==
    /\ ~wentBack
    /\ now - BackStep >= 0
    /\ now' = now - BackStep
    /\ wentBack' = TRUE
    /\ lastEvent' = "clockback"
    /\ prevPhase' = Phase
    /\ UNCHANGED <<aborted, cfgVars, viewVars, engineVars, widgetVars>>
    /\ UNCHANGED <<soundLog, soundOut, playerClip, stalled, pressNow, pressCur, runTotal, fineSteps>>

(***************************************************************************)
(* Construction (main.cpp 24-31): loadConfig, setupUI, resetTimer.         *)
(***************************************************************************)
Init ==
    /\ \E c \in loadConfig :
          /\ startMin = c[1]
          /\ startSec = c[2]
          /\ limitMin = c[3]
          /\ limitSec = c[4]
    /\ soundZeroFile = <<>>
    /\ soundLimitFile = <<>>
    /\ cfgFile = ConfigFileOf(startMin, startSec, limitMin, limitSec,
                              soundZeroFile, soundLimitFile)
    /\ currentMs = ResetCurrentMs
    /\ limitMs = ResetLimitMs
    /\ targetEndTime = 0
    /\ isRunning = FALSE
    /\ isPaused = FALSE
    /\ zeroSoundPlayed = FALSE
    /\ timerActive = FALSE
    /\ sinceArm = 0
    /\ btnText = "Start"
    /\ btnVisible = TRUE
    /\ now = 0
    /\ lastEvent = "reset"
    /\ prevPhase = "Idle"
    /\ soundLog = <<>>
    /\ soundOut = <<>>
    /\ playerClip = "none"
    /\ winW = DefaultWidth
    /\ winH = DefaultHeight
    /\ isFullScreen = FALSE
    /\ pointSize = NewPointSize(DefaultWidth, DefaultHeight)
    /\ wentBack = FALSE
    /\ stalled = FALSE
    /\ pressNow = 0
    /\ pressCur = 0
    /\ runTotal = 0
    /\ fineSteps = 0
    /\ aborted = FALSE

(***************************************************************************)
(* The program as the window drives it: a click reaches onStartPauseClicked*)
(* only while the button is visible (connect, main.cpp 156; the button is  *)
(* hidden by onTick at the limit, main.cpp 275).                           *)
(***************************************************************************)
ClickStartPause ==
    /\ btnVisible
    /\ onStartPauseClicked

Next ==
    \/ ClickStartPause
    \/ onResetClicked
    \/ onTick
    \/ AdvanceFine
    \/ AdvanceCoarse
    \/ ClockBack

Spec == Init /\ [][Next]_vars

(***************************************************************************)
(* The slots as functions: onStartPauseClicked invoked whatever the        *)
(* button's visibility (the slot itself tests only isRunning).             *)
(***************************************************************************)
NextSlot ==
    \/ onStartPauseClicked
    \/ onResetClicked
    \/ onTick
    \/ AdvanceFine
    \/ AdvanceCoarse
    \/ ClockBack

SpecSlot == Init /\ [][NextSlot]_vars

(***************************************************************************)
(* resetTimer as a function of the configuration: the state after          *)
(* loadConfig, for int values up to the ends of the int range, and then    *)
(* the constructor's (or a click's) resetTimer.                            *)
(***************************************************************************)
WideInts ==
    {0, 59, IntMax \div (SecPerMin * MsPerSec), (IntMax \div (SecPerMin * MsPerSec)) + 1,
     IntMax \div MsPerSec, (IntMax \div MsPerSec) + 1, IntMax}

InitInt ==
    /\ startMin \in WideInts
    /\ startSec \in WideInts
    /\ limitMin \in WideInts
    /\ limitSec \in WideInts
    /\ soundZeroFile = <<>>
    /\ soundLimitFile = <<>>
    /\ cfgFile = ConfigFileOf(startMin, startSec, limitMin, limitSec,
                              soundZeroFile, soundLimitFile)
    /\ currentMs = 0
    /\ limitMs = 0
    /\ targetEndTime = 0
    /\ isRunning = FALSE
    /\ isPaused = FALSE
    /\ zeroSoundPlayed = FALSE
    /\ timerActive = FALSE
    /\ sinceArm = 0
    /\ btnText = "Start"
    /\ btnVisible = TRUE
    /\ now = 0
    /\ lastEvent = "load"
    /\ prevPhase = "Idle"
    /\ soundLog = <<>>
    /\ soundOut = <<>>
    /\ playerClip = "none"
    /\ winW = DefaultWidth
    /\ winH = DefaultHeight
    /\ isFullScreen = FALSE
    /\ pointSize = NewPointSize(DefaultWidth, DefaultHeight)
    /\ wentBack = FALSE
    /\ stalled = FALSE
    /\ pressNow = 0
    /\ pressCur = 0
    /\ runTotal = 0
    /\ fineSteps = 0
    /\ aborted = FALSE

NextInt == resetTimer

SpecInt == InitInt /\ [][NextInt]_vars

(***************************************************************************)
(* The constructor (main.cpp 99-107) step by step: the fields hold their   *)
(* initializers, loadConfig reads config.txt, resetTimer follows.          *)
(***************************************************************************)
ConfigLines ==
    {<<>>,
     <<" ", "#", "c">>,
     <<" ", "1", "5", " ", "#", "m">>,
     <<"-", "1">>,
     <<"1", "x">>}

ConfigTexts == UNION {[1..n -> ConfigLines] : n \in 0..MaxLines}

loadConfigFile ==
    /\ lastEvent = "construct"
    /\ startMin' = LoadedFields[1]
    /\ startSec' = LoadedFields[2]
    /\ limitMin' = LoadedFields[3]
    /\ limitSec' = LoadedFields[4]
    /\ soundZeroFile' = LoadedFields[5]
    /\ soundLimitFile' = LoadedFields[6]
    /\ lastEvent' = "load"
    /\ UNCHANGED <<cfgFile, engineVars, widgetVars, viewVars, playerClip, now, aborted>>
    /\ UNCHANGED <<prevPhase, soundLog, soundOut, wentBack, stalled, pressNow, pressCur,
                   runTotal, fineSteps>>

ConstructorReset ==
    /\ lastEvent = "load"
    /\ resetTimer

InitLoad ==
    /\ cfgFile \in [opens : {FALSE}, lines : {<<>>}]
                      \cup [opens : {TRUE}, lines : ConfigTexts]
    /\ startMin = DefaultStartMin
    /\ startSec = DefaultStartSec
    /\ limitMin = DefaultLimitMin
    /\ limitSec = DefaultLimitSec
    /\ soundZeroFile = <<>>
    /\ soundLimitFile = <<>>
    /\ currentMs = 0
    /\ limitMs = 0
    /\ targetEndTime = 0
    /\ isRunning = FALSE
    /\ isPaused = FALSE
    /\ zeroSoundPlayed = FALSE
    /\ timerActive = FALSE
    /\ sinceArm = 0
    /\ btnText = "Start"
    /\ btnVisible = TRUE
    /\ playerClip = "none"
    /\ winW = DefaultWidth
    /\ winH = DefaultHeight
    /\ isFullScreen = FALSE
    /\ pointSize = NewPointSize(DefaultWidth, DefaultHeight)
    /\ now = 0
    /\ lastEvent = "construct"
    /\ prevPhase = "Idle"
    /\ soundLog = <<>>
    /\ soundOut = <<>>
    /\ wentBack = FALSE
    /\ stalled = FALSE
    /\ pressNow = 0
    /\ pressCur = 0
    /\ runTotal = 0
    /\ fineSteps = 0
    /\ aborted = FALSE

NextLoad ==
    \/ loadConfigFile
    \/ ConstructorReset

SpecLoad == InitLoad /\ [][NextLoad]_vars

(***************************************************************************)
(* The window being resized and toggled between normal and full screen.    *)
(* A resize changes one side at a time.                                    *)
(***************************************************************************)
Sides == 0..MaxSide

resizeEvent ==
    /\ ~aborted
    /\ ~isFullScreen
    /\ \E w \in Sides \cup {winW}, h \in Sides \cup {winH} :
          /\ (w = winW) # (h = winH)
          /\ winW' = w
          /\ winH' = h
          /\ pointSize' = NewPointSize(w, h)
    /\ lastEvent' = "resize"
    /\ UNCHANGED <<cfgVars, engineVars, widgetVars, isFullScreen, playerClip, now, aborted>>
    /\ UNCHANGED <<prevPhase, soundLog, soundOut, wentBack, stalled, pressNow, pressCur,
                   runTotal, fineSteps>>

\* Alt + Return or Enter: showFullScreen() / showNormal(), and the
\* resizeEvent that follows the change of window state
keyPressEvent ==
    /\ ~aborted
    /\ isFullScreen' = ~isFullScreen
    /\ pointSize' = IF isFullScreen THEN NewPointSize(winW, winH)
                    ELSE NewPointSize(ScreenWidth, ScreenHeight)
    /\ lastEvent' = "key"
    /\ UNCHANGED <<cfgVars, engineVars, widgetVars, winW, winH, playerClip, now, aborted>>
    /\ UNCHANGED <<prevPhase, soundLog, soundOut, wentBack, stalled, pressNow, pressCur,
                   runTotal, fineSteps>>

NextResize ==
    \/ resizeEvent
    \/ keyPressEvent
    \/ onResetClicked

\* the window after construction with the default configuration
InitResize ==
    /\ Init
    /\ <<startMin, startSec, limitMin, limitSec>> = DefaultConfig

SpecResize == InitResize /\ [][NextResize]_vars

(***************************************************************************)
(* The window with the sound paths a config.txt can yield (an empty fifth  *)
(* field leaves the sixth empty too: readValidLine skips empty lines) and  *)
(* a clip that comes to its end while the program runs.                    *)
(***************************************************************************)
ClipEnds ==
    /\ ~aborted
    /\ playerClip # "none"
    /\ playerClip' = "none"
    /\ UNCHANGED <<cfgVars, engineVars, widgetVars, viewVars, now, histVars, aborted>>

InitSound ==
    /\ \E c \in {d \in loadConfig : \A i \in 1..4 : d[i] >= 0} :
          /\ startMin = c[1]
          /\ startSec = c[2]
          /\ limitMin = c[3]
          /\ limitSec = c[4]
    /\ soundZeroFile \in SoundPaths
    /\ soundLimitFile \in SoundPaths
    /\ soundZeroFile = <<>> => soundLimitFile = <<>>
    /\ cfgFile = ConfigFileOf(startMin, startSec, limitMin, limitSec,
                              soundZeroFile, soundLimitFile)
    /\ currentMs = ResetCurrentMs
    /\ limitMs = ResetLimitMs
    /\ targetEndTime = 0
    /\ isRunning = FALSE
    /\ isPaused = FALSE
    /\ zeroSoundPlayed = FALSE
    /\ timerActive = FALSE
    /\ sinceArm = 0
    /\ btnText = "Start"
    /\ btnVisible = TRUE
    /\ playerClip = "none"
    /\ winW = DefaultWidth
    /\ winH = DefaultHeight
    /\ isFullScreen = FALSE
    /\ pointSize = NewPointSize(DefaultWidth, DefaultHeight)
    /\ now = 0
    /\ lastEvent = "reset"
    /\ prevPhase = "Idle"
    /\ soundLog = <<>>
    /\ soundOut = <<>>
    /\ wentBack = FALSE
    /\ stalled = FALSE
    /\ pressNow = 0
    /\ pressCur = 0
    /\ runTotal = 0
    /\ fineSteps = 0
    /\ aborted = FALSE

NextSound ==
    \/ ClickStartPause
    \/ onResetClicked
    \/ onTick
    \/ AdvanceFine
    \/ AdvanceCoarse
    \/ ClipEnds

SpecSound == InitSound /\ [][NextSound]_vars

(***************************************************************************)
(* The window with an advancing wall clock (never set back) and the event  *)
(* loop's scheduling: an active QTimer's timeout is eventually dispatched, *)
(* and time keeps passing (up to the horizon MaxNow).                      *)
(***************************************************************************)
NextLive ==
    \/ ClickStartPause
    \/ onResetClicked
    \/ onTick
    \/ AdvanceFine
    \/ AdvanceCoarse

SpecLive ==
    /\ Init
    /\ [][NextLive]_vars
    /\ WF_vars(onTick)
    /\ WF_vars(AdvanceCoarse)

(***************************************************************************)
(* Properties.                                                             *)
(***************************************************************************)
Count(log, x) == Cardinality({i \in 1..Len(log) : log[i] = x})

Abs(x) == IF x < 0 THEN 0 - x ELSE x

NonNegativeConfig == StartSeconds >= 0 /\ LimitSeconds >= 0

\* C1: in Ended, a call of the start/pause slot changes nothing (phase,
\* currentMs, the tick timer, the sound requests), and only a reset leaves
\* Ended.  Stated of the slot itself (SpecSlot).
C1_StartPauseInEndedIsNoOp ==
    [][NonNegativeConfig =>
          /\ (Phase = "Ended" /\ lastEvent' \in {"start", "pause"})
                => UNCHANGED <<currentMs, isRunning, isPaused, timerActive, sinceArm, soundLog>>
          /\ (Phase = "Ended" /\ Phase' # "Ended") => lastEvent' = "reset"]_vars

\* C2: whenever the phase is Ended, currentMs = limitMs, and no step other
\* than a reset taken in Ended (time passing, the clock set back, a click)
\* changes currentMs.
C2_EndedHoldsLimit ==
    /\ [](Phase = "Ended" => currentMs = limitMs)
    /\ [][(Phase = "Ended" /\ lastEvent' # "reset") => currentMs' = currentMs]_vars

C2_Witness ==
    Phase = "Ended" /\ prevPhase = "Ended" /\ lastEvent \in {"clock", "clockback"}

\* C3: in one reset cycle the zero-crossing sound is requested at most once,
\* the limit sound at most once, and with limitSeconds > 0 a limit request
\* has a zero-crossing request before it.
C3_SoundsOncePerCycle ==
    /\ Count(soundLog, "zero") <= 1
    /\ Count(soundLog, "limit") <= 1
    /\ LimitSeconds > 0 =>
          \A i \in 1..Len(soundLog) :
              soundLog[i] = "limit" => \E j \in 1..(i - 1) : soundLog[j] = "zero"

C3_Witness ==
    /\ LimitSeconds > 0
    /\ soundLog = <<"zero", "limit">>
    /\ Phase = "Ended"
    /\ runTotal > TickInterval

\* C4: with limitSeconds = 0, the first tick of a cycle that computes a
\* remaining time <= 0 requests the zero sound and then the limit sound, and
\* leaves the engine Ended with currentMs = limitMs = 0 and the timer stopped.
C4_ZeroAndLimitInOneTick ==
    [][(/\ lastEvent' = "tick"
        /\ LimitSeconds = 0
        /\ soundLog = <<>>
        /\ targetEndTime - now <= 0)
          => /\ soundLog' = <<"zero", "limit">>
             /\ Phase' = "Ended"
             /\ currentMs' = 0
             /\ limitMs' = 0
             /\ ~timerActive']_vars

C4_Witness ==
    /\ StartSeconds = 0
    /\ LimitSeconds = 0
    /\ lastEvent = "tick"
    /\ soundLog = <<"zero", "limit">>
    /\ Phase = "Ended"

\* C5: right after a reset, whatever the phase it was pressed in, the phase is
\* Idle, the timer is stopped, the latch is clear, currentMs = 1000*startSeconds,
\* limitMs = -1000*limitSeconds, and the Start/Pause button shows "Start".
C5_ResetState ==
    lastEvent = "reset" =>
        /\ Phase = "Idle"
        /\ ~timerActive
        /\ ~zeroSoundPlayed
        /\ currentMs = 1000 * StartSeconds
        /\ limitMs = (0 - 1000) * LimitSeconds
        /\ btnVisible
        /\ btnText = "Start"

C5_Witness ==
    lastEvent = "reset" /\ prevPhase = "Ended" /\ now > 0

\* C6: right after a tick that leaves the engine Running, currentMs is
\* targetEndTime - now, which is currentMs at the last start/resume press
\* minus the wall-clock time since that press, however late the tick was.
C6_TickReadsWallClock ==
    (lastEvent = "tick" /\ isRunning) =>
        /\ currentMs = targetEndTime - now
        /\ currentMs = pressCur - (now - pressNow)

C6_Witness ==
    /\ lastEvent = "tick"
    /\ isRunning
    /\ stalled
    /\ now - pressNow > TickInterval

\* C7: before the limit is reached, with ticks delivered on time and a clock
\* that is not set back, the decrease of currentMs since the reset differs
\* from the wall-clock time spent Running by at most one tick interval.
C7_NoAccumulatedError ==
    (NonNegativeConfig /\ ~stalled /\ ~wentBack /\ Phase # "Ended") =>
        Abs(runTotal - (ResetCurrentMs - currentMs)) <= TickInterval

\* C8: a pause leaves currentMs as it is; while Paused, passing time does not
\* change it; a start or resume sets targetEndTime to now + currentMs; and the
\* zero crossing comes with the first tick at which the time since the
\* resume has reached the currentMs of the resume.
C8_PauseFreezesResumeReanchors ==
    [][/\ lastEvent' = "pause" => currentMs' = currentMs
       /\ (Phase = "Paused" /\ Phase' = "Paused") => currentMs' = currentMs
       /\ lastEvent' = "start" =>
             (targetEndTime' = now + currentMs /\ currentMs' = currentMs)
       /\ (lastEvent' = "tick" /\ ~zeroSoundPlayed) =>
             (zeroSoundPlayed' <=> (now - pressNow >= pressCur))]_vars

C8_Witness ==
    /\ lastEvent = "tick"
    /\ soundLog = <<"zero">>
    /\ pressCur > 0
    /\ currentMs <= 0
    /\ runTotal > now - pressNow
    /\ now - runTotal >= CoarseStep
    /\ ~wentBack

\* C9: as long as the wall clock has not been set back, no step other than a
\* reset increases currentMs.
C9_NeverIncreases ==
    [][(~wentBack' /\ lastEvent' # "reset") => currentMs' <= currentMs]_vars

\* C9 restricted to non-negative configured durations (holds; not the claim)
C9_NeverIncreasesNonNegative ==
    [][(NonNegativeConfig /\ ~wentBack' /\ lastEvent' # "reset")
          => currentMs' <= currentMs]_vars

\* C10: limitMs <= 0 in every reachable state, for every config the loader
\* can produce.
C10_LimitNotPositive == limitMs <= 0

\* C14: the Start/Pause button is hidden exactly when the phase is Ended
\* (which is exactly when the limit was reached in this reset cycle), and
\* when visible it reads "Pause" exactly when Running, "Start" otherwise.
C14_ButtonReflectsPhase ==
    /\ ~btnVisible <=> Phase = "Ended"
    /\ Phase = "Ended" <=> Count(soundLog, "limit") > 0
    /\ btnVisible => (btnText = "Pause" <=> Phase = "Running")
    /\ (btnVisible /\ Phase \in {"Idle", "Paused"}) => btnText = "Start"

C14_Witness ==
    /\ lastEvent = "reset"
    /\ prevPhase = "Ended"
    /\ btnVisible
    /\ btnText = "Start"
    /\ fineSteps > 0

\* C15: the QTimer is active exactly when the phase is Running, and every
\* tick is dispatched in phase Running (never in Idle, Paused or Ended).
C15_TickOnlyWhileRunning ==
    /\ timerActive <=> Phase = "Running"
    /\ lastEvent = "tick" => prevPhase = "Running"

C15_Witness ==
    /\ lastEvent = "pause"
    /\ stalled
    /\ runTotal > TickInterval
    /\ currentMs = ResetCurrentMs
    /\ ~timerActive

\* C18: with a non-negative start duration, currentMs < 0 implies the zero
\* latch is set; the latch goes from clear to set only on a tick that
\* computes a remaining time <= 0, and every such tick sets it.
C18_NegativeImpliesLatch ==
    /\ []((StartSeconds >= 0 /\ currentMs < 0) => zeroSoundPlayed)
    /\ [][/\ (~zeroSoundPlayed /\ zeroSoundPlayed')
               => (lastEvent' = "tick" /\ targetEndTime - now <= 0)
          /\ (lastEvent' = "tick" /\ targetEndTime - now <= 0) => zeroSoundPlayed']_vars

C18_Witness ==
    /\ StartSeconds >= 0
    /\ currentMs < 0
    /\ zeroSoundPlayed
    /\ Phase = "Paused"
    /\ lastEvent = "clock"

\* C19: with non-negative start and limit durations and a wall clock that
\* has not been set back, limitMs <= currentMs <= 1000*startSeconds in every
\* state between two events.
C19_WithinRange ==
    (NonNegativeConfig /\ ~wentBack) =>
        (limitMs <= currentMs /\ currentMs <= 1000 * StartSeconds)

C19_Witness ==
    /\ NonNegativeConfig
    /\ ~wentBack
    /\ lastEvent = "tick"
    /\ Phase = "Ended"
    /\ targetEndTime - now < limitMs
    /\ currentMs = limitMs

\* C20: once Running, with ticks delivered and time passing, the engine
\* leaves Running; if no pause or reset took it out, it is Ended, the zero
\* sound was requested on the way and the limit sound by the tick that
\* entered Ended.  (The horizon must leave room for the limit.)
EndedWithBothSounds ==
    Phase = "Ended" => (Count(soundLog, "zero") = 1 /\ soundLog[Len(soundLog)] = "limit")

RoomToEnd ==
    /\ now <= MaxNow - CoarseStep
    /\ targetEndTime - limitMs <= MaxNow - CoarseStep

C20_EventuallyEnded ==
    /\ [](EndedWithBothSounds)
    /\ [][(Phase = "Running" /\ Phase' = "Ended")
              => (lastEvent' = "tick" /\ soundLog'[Len(soundLog')] = "limit"
                    /\ Len(soundLog') > Len(soundLog))]_vars
    /\ (Phase = "Running" /\ RoomToEnd) ~> (Phase # "Running")

\* C20 for non-negative configured durations (holds; not the claim)
C20_EventuallyEndedNonNegative ==
    /\ [](NonNegativeConfig => EndedWithBothSounds)
    /\ [][(Phase = "Running" /\ Phase' = "Ended")
              => (lastEvent' = "tick" /\ soundLog'[Len(soundLog')] = "limit"
                    /\ Len(soundLog') > Len(soundLog))]_vars
    /\ (Phase = "Running" /\ RoomToEnd) ~> (Phase # "Running")

\* C11: for non-negative minutes and seconds in the int range, resetTimer
\* runs to its end, the exact results 1000*(60*min + sec) fit the 32-bit
\* intermediate arithmetic, and currentMs and limitMs are those results.
ExactFits(m, s) ==
    /\ m <= IntMax \div SecPerMin
    /\ s <= IntMax - (SecPerMin * m)
    /\ (SecPerMin * m) + s <= IntMax \div MsPerSec

C11_ResetExact ==
    /\ ~aborted
    /\ lastEvent = "reset" =>
          /\ ExactFits(startMin, startSec)
          /\ ExactFits(limitMin, limitSec)
          /\ currentMs = 1000 * ((60 * startMin) + startSec)
          /\ limitMs = (0 - 1000) * ((60 * limitMin) + limitSec)

\* C11 for durations below 2^31 milliseconds (holds; not the claim)
C11_ResetExactWhenFits ==
    (ExactFits(startMin, startSec) /\ ExactFits(limitMin, limitSec)) =>
        /\ ~aborted
        /\ lastEvent = "reset" =>
              /\ currentMs = 1000 * ((60 * startMin) + startSec)
              /\ limitMs = (0 - 1000) * ((60 * limitMin) + limitSec)

\* C12: every zero or limit request whose path is empty or names no
\* existing regular file emits a system beep.
C12_BeepWhenUnavailable ==
    \A i \in 1..Len(soundOut) :
        FileNameOf(soundLog[i]) \notin RegularFiles => soundOut[i] = "beep"

\* C12 for non-empty paths only (holds; not the claim): a path that names
\* no regular file beeps, and the clip of the other request is left alone
C12_BeepWhenMissing ==
    \A i \in 1..Len(soundOut) :
        (FileNameOf(soundLog[i]) \notin RegularFiles /\ FileNameOf(soundLog[i]) # <<>>)
            => soundOut[i] = "beep"

\* C13: in every step that requests the limit sound, the zero clip is no
\* longer playing afterwards, whatever the two paths are.
C13_PlayPreempts ==
    [][Count(soundLog', "limit") > Count(soundLog, "limit") => playerClip' # "zero"]_vars

\* C13 when the limit path names a playable file (holds; not the claim)
C13_PlayPreemptsPlayable ==
    [][(Count(soundLog', "limit") > Count(soundLog, "limit") /\ soundLimitFile \in RegularFiles)
            => playerClip' = "limit"]_vars

\* In every run the six fields are what loadConfig makes of config.txt.
FieldsFromFile ==
    lastEvent # "construct" =>
        <<startMin, startSec, limitMin, limitSec, soundZeroFile, soundLimitFile>> = LoadedFields

\* C16: after loadConfig, when config.txt opens, the six fields are taken
\* in order from its first six meaningful lines (the physical line up to
\* the first '#', without surrounding blanks, if anything is left): an
\* integer field is the line's decimal value, or 0 if the line is not a
\* decimal integer or is missing, a path field is the line, or empty if
\* missing; when config.txt does not open the fields are 0:10, 0:10 and
\* empty paths.
HashPositions(line) == {i \in 1..Len(line) : line[i] = "#"}

BeforeHash(line) ==
    IF HashPositions(line) = {} THEN line
    ELSE SubSeq(line, 1, (CHOOSE i \in HashPositions(line) :
                              \A j \in HashPositions(line) : i <= j) - 1)

NonBlankPositions(str) == {i \in 1..Len(str) : str[i] # " "}

WithoutSurroundingBlanks(str) ==
    IF NonBlankPositions(str) = {} THEN <<>>
    ELSE SubSeq(str,
                CHOOSE i \in NonBlankPositions(str) : \A j \in NonBlankPositions(str) : i <= j,
                CHOOSE i \in NonBlankPositions(str) : \A j \in NonBlankPositions(str) : i >= j)

IsMeaningful(str) == str # <<>>

MeaningfulLines(lines) ==
    SelectSeq([i \in 1..Len(lines) |-> WithoutSurroundingBlanks(BeforeHash(lines[i]))],
              IsMeaningful)

FieldLine(lines, k) ==
    IF k <= Len(MeaningfulLines(lines)) THEN MeaningfulLines(lines)[k] ELSE <<>>

RECURSIVE TenTo(_)
TenTo(n) == IF n = 0 THEN 1 ELSE 10 * TenTo(n - 1)

RECURSIVE PlaceSum(_, _)
PlaceSum(ds, i) ==
    IF i > Len(ds) THEN 0
    ELSE (DigitVal(ds[i]) * TenTo(Len(ds) - i)) + PlaceSum(ds, i + 1)

IsDecimalInteger(str) ==
    /\ str # <<>>
    /\ \A i \in 2..Len(str) : str[i] \in DigitChars
    /\ \/ str[1] \in DigitChars
       \/ (str[1] \in {"-", "+"} /\ Len(str) > 1)

DecimalInteger(str) ==
    IF str[1] = "-" THEN 0 - PlaceSum(Tail(str), 1)
    ELSE IF str[1] = "+" THEN PlaceSum(Tail(str), 1)
    ELSE PlaceSum(str, 1)

IntegerField(lines, k) ==
    IF IsDecimalInteger(FieldLine(lines, k)) THEN DecimalInteger(FieldLine(lines, k)) ELSE 0

C16_LoaderPositional ==
    lastEvent \in {"load", "reset"} =>
        IF cfgFile.opens
        THEN /\ startMin = IntegerField(cfgFile.lines, 1)
             /\ startSec = IntegerField(cfgFile.lines, 2)
             /\ limitMin = IntegerField(cfgFile.lines, 3)
             /\ limitSec = IntegerField(cfgFile.lines, 4)
             /\ soundZeroFile = FieldLine(cfgFile.lines, 5)
             /\ soundLimitFile = FieldLine(cfgFile.lines, 6)
        ELSE /\ <<startMin, startSec, limitMin, limitSec>> = <<0, 10, 0, 10>>
             /\ soundZeroFile = <<>>
             /\ soundLimitFile = <<>>

\* C16 witness: a comment line is skipped, "  15 # m" gives 15, "1x" gives
\* 0, the fourth integer and both paths are missing
C16_Witness ==
    /\ lastEvent = "load"
    /\ cfgFile.opens
    /\ Len(cfgFile.lines) >= 5
    /\ cfgFile.lines[1] = <<" ", "#", "c">>
    /\ cfgFile.lines[2] = <<" ", "1", "5", " ", "#", "m">>
    /\ startMin = 15
    /\ startSec = 0 - 1
    /\ limitMin = 0
    /\ limitSec = 0
    /\ soundZeroFile = <<>>

\* C16 witness for seven meaningful lines: the seventh is not read
C16_WitnessSeven ==
    /\ lastEvent = "load"
    /\ cfgFile.opens
    /\ Len(MeaningfulLines(cfgFile.lines)) > 6
    /\ soundLimitFile = <<"1", "x">>

\* C16 witness for an absent config.txt
C16_WitnessAbsent ==
    /\ lastEvent = "load"
    /\ ~cfgFile.opens
    /\ startSec = 10

\* C17: after every resize (and full-screen toggle, and reset) the font
\* point size is max(20, min(floor(0.50*height), floor(width/4.5))); a
\* 1200x800 window gives 266 and a 100x100 window gives 22.
\* WholePart(num, den) is the floor of num/den: the q with
\* den*q <= num < den*(q + 1).
WholePart(num, den) == CHOOSE q \in 0..num : (den * q) <= num /\ num < den * (q + 1)

FloorHalfHeight == WholePart(CurrentHeight, 2)
FloorWidthBy45 == WholePart(10 * CurrentWidth, 45)

C17_WitnessFullScreen ==
    /\ lastEvent = "key"
    /\ isFullScreen
    /\ CurrentWidth = 1200
    /\ CurrentHeight = 800
    /\ pointSize = 266

====
